---- MODULE Spec2Model ----
(***************************************************************************)
(* Command resolution of wapm-cli: find_command_in_directory (the          *)
(* resolution engine over one directory's manifest and lockfile) and       *)
(* get_command_from_anywhere (local scope first, then the global scope).   *)
(* Source: src/src/dataflow/find_command_result.rs, src/src/config.rs.     *)
(***************************************************************************)
EXTENDS Naturals, Sequences, FiniteSets

VARIABLES
    pc,                   \* position in get_command_from_anywhere
    command_name,         \* the argument of get_command_from_anywhere
    current_directory,    \* local of get_command_from_anywhere (l.243)
    directory,            \* argument of the find_command_in_directory call
                          \* that has just returned (or unwound)
    manifest_result,      \* what the manifest loader returned in that call
    lockfile_result,      \* what the lockfile loader returned in that call
    command_result,       \* what that call returned, or its panic
    local_command_result, \* local of get_command_from_anywhere (l.244)
    globals_directory,    \* what Config::get_globals_directory returned
    global_command_result,\* local of get_command_from_anywhere (l.278)
    result,               \* the value get_command_from_anywhere returned
    calls,                \* log of the calls made, in order
    config,               \* the Config that config::set is given (&mut Config)
    config_file,          \* the saved config file: absent, or holding the
                          \* current config, or an older one
    set_result,           \* what the latest config::set returned
    sets                  \* the config::set calls made, in order, each with
                          \* the registry it found

locate_vars == <<pc, command_name, current_directory, directory,
                 manifest_result, lockfile_result, command_result,
                 local_command_result, globals_directory,
                 global_command_result, result, calls>>

config_vars == <<config, config_file, set_result, sets>>

vars == <<locate_vars, config_vars>>

(***************************************************************************)
(* Bounds of the model and the small sets the inputs are drawn from.       *)
(***************************************************************************)
MaxModules == 1          \* longest module list of a manifest
MaxCommands == 1         \* most command entries of a lockfile
MaxLockfileModules == 1  \* most module entries of a lockfile
MaxSets == 3             \* most config::set calls in a run

PackageNames == {"myapp", "dep"}
PackageVersions == {"1.0.0"}
ModuleNames == {"run", "bar"}
CommandNames == {"run", "foo"}

\* Option<T>
None == [tag |-> "None"]
Some(v) == [tag |-> "Some", value |-> v]

\* Result<T, E>
Ok(v) == [tag |-> "Ok", value |-> v]
Err(e) == [tag |-> "Err", error |-> e]

MainArgs == {None, Some("--flag")}

\* A value not yet assigned.
Unset == [tag |-> "Unset"]

(***************************************************************************)
(* Paths: a PathBuf is the sequence of its components; an absolute path    *)
(* starts with the root component "/".                                     *)
(***************************************************************************)
IsAbsolute(p) == Len(p) > 0 /\ p[1] = "/"

\* PathBuf::join: an absolute argument replaces the base.
PathJoin(base, p) == IF IsAbsolute(p) THEN p ELSE base \o p

WasmFile(m) == IF m = "run" THEN "run.wasm" ELSE "bar.wasm"

SeqsUpTo(S, n) == UNION {[1..k -> S] : k \in 0..n}

(***************************************************************************)
(* Manifest model and loader outcomes.                                     *)
(***************************************************************************)
ManifestModules == {[name |-> m, source |-> <<WasmFile(m)>>] : m \in ModuleNames}

Manifests(dir) ==
    {[package |-> [name |-> n], base_directory_path |-> dir, module |-> ms] :
        n \in PackageNames,
        ms \in {None} \cup {Some(s) : s \in SeqsUpTo(ManifestModules, MaxModules)}}

NoManifest == [tag |-> "NoManifest"]
ManifestError(e) == [tag |-> "ManifestError", error |-> e]
Manifest(m) == [tag |-> "Manifest", manifest |-> m]

ManifestResults(dir) ==
    {NoManifest, ManifestError([kind |-> "ManifestParseError"])}
        \cup {Manifest(m) : m \in Manifests(dir)}

(***************************************************************************)
(* Lockfile model and loader outcomes.                                     *)
(***************************************************************************)
ModuleKeys == PackageNames \X PackageVersions \X ModuleNames

LockfileModule(k) ==
    [name |-> k[3],
     package_name |-> k[1],
     package_version |-> k[2],
     source |-> <<"wapm_packages", k[1], WasmFile(k[3])>>,
     root |-> <<"wapm_packages", k[1]>>,
     prehashed_module_key |-> <<"key", k[1], k[2], k[3]>>]

LockfileCommands ==
    [package_name : PackageNames, package_version : PackageVersions,
     module : ModuleNames, main_args : MainArgs]

SubsetsUpTo(S, n) == {T \in SUBSET S : Cardinality(T) <= n}

Lockfiles ==
    {[modules |-> [k \in ks |-> LockfileModule(k)], commands |-> cs] :
        ks \in SubsetsUpTo(ModuleKeys, MaxLockfileModules),
        cs \in UNION {[names -> LockfileCommands] :
                        names \in SubsetsUpTo(CommandNames, MaxCommands)}}

NoLockfile == [tag |-> "NoLockfile"]
LockfileError(e) == [tag |-> "LockfileError", error |-> e]
Lockfile(l) == [tag |-> "Lockfile", lockfile |-> l]

LockfileResults ==
    {NoLockfile, LockfileError([kind |-> "LockfileParseError"])}
        \cup {Lockfile(l) : l \in Lockfiles}

(***************************************************************************)
(* Lockfile lookups (Lockfile::get_command, get_module, ...). Their code   *)
(* is not among the source files; they follow spec.md sections 3, 4.2 and  *)
(* 4.3: both tables are indexed collections, a lookup finds the entry or   *)
(* fails.                                                                  *)
(***************************************************************************)
LockfileCommandNotFound(c) == [kind |-> "CommandNotFound", command |-> c]

get_command(lockfile, name) ==
    IF name \in DOMAIN lockfile.commands
    THEN Ok(lockfile.commands[name])
    ELSE Err(LockfileCommandNotFound(name))

get_module(lockfile, package_name, package_version, module) ==
    IF <<package_name, package_version, module>> \in DOMAIN lockfile.modules
    THEN Ok(lockfile.modules[<<package_name, package_version, module>>])
    ELSE Err([kind |-> "ModuleNotFound", package_name |-> package_name,
              package_version |-> package_version, module |-> module])

get_prehashed_cache_key_from_command(lockfile, command) ==
    LET k == <<command.package_name, command.package_version, command.module>>
    IN  IF k \in DOMAIN lockfile.modules
        THEN Some(lockfile.modules[k].prehashed_module_key)
        ELSE None

get_canonical_source_path_from_lockfile_dir(lockfile_module, dir) ==
    PathJoin(dir, lockfile_module.source)

get_canonical_manifest_path_from_lockfile_dir(lockfile_module, dir) ==
    PathJoin(dir, lockfile_module.root)

(***************************************************************************)
(* FindCommandResult and Error (find_command_result.rs l.50-85).           *)
(***************************************************************************)
CommandNotFound(c) == [tag |-> "CommandNotFound", command |-> c]

CommandFound(source, manifest_dir, args, module_name, prehashed_cache_key) ==
    [tag |-> "CommandFound", source |-> source, manifest_dir |-> manifest_dir,
     args |-> args, module_name |-> module_name,
     prehashed_cache_key |-> prehashed_cache_key]

Error(e) == [tag |-> "Error", error |-> e]

\* The panic of l.215: no value is returned, the call unwinds.
Panic(msg) == [tag |-> "Panic", message |-> msg]

CommandFoundButCorrespondingModuleIsMissing(c, m) ==
    [kind |-> "CommandFoundButCorrespondingModuleIsMissing",
     command |-> c, module |-> m]

ErrorCommandNotFound(c) == [kind |-> "CommandNotFound", command |-> c]

CommandNotFoundInLocalDirectoryAndErrorReadingGlobalDirectory(c, msg) ==
    [kind |-> "CommandNotFoundInLocalDirectoryAndErrorReadingGlobalDirectory",
     command |-> c, message |-> msg]

ErrorReadingLocalDirectory(c, msg) ==
    [kind |-> "ErrorReadingLocalDirectory", command |-> c, message |-> msg]

CouldNotOpenGlobalsDirectory(c, msg) ==
    [kind |-> "CouldNotOpenGlobalsDirectory", command |-> c, message |-> msg]

\* e.to_string(): the Display text of an error, determined by the error.
ToString(e) == <<"display", e>>

\* impl From<LockfileError> for FindCommandResult
FromLockfileError(error) ==
    IF error.kind = "CommandNotFound"
    THEN CommandNotFound(error.command)
    ELSE Error(error)

\* An engine outcome together with the lookups made to compute it.
Outcome(r, log) == [result |-> r, calls |-> log]

CallGetCommand(c) == <<"get_command", <<c>>>>
CallGetModule(lc) ==
    <<"get_module", <<lc.package_name, lc.package_version, lc.module>>>>

(***************************************************************************)
(* The resolution engine (find_command_result.rs l.96-224).                *)
(***************************************************************************)
FindModule(manifest, name) ==
    IF manifest.module.tag = "None"
    THEN None
    ELSE LET modules == manifest.module.value
             hits == {i \in 1..Len(modules) : modules[i].name = name}
         IN  IF hits = {}
             THEN None
             ELSE Some(modules[CHOOSE i \in hits : \A j \in hits : i <= j])

\* LocalModuleCommand with a module missing from the manifest reported as
\* CommandNotFound.
LocalModuleCommand_missing_is_not_found(cmd, manifest, lockfile_command) ==
    LET found_module == FindModule(manifest, lockfile_command.module)
    IN  IF found_module.tag = "Some"
        THEN CommandFound(found_module.value.source,
                          manifest.base_directory_path,
                          lockfile_command.main_args,
                          found_module.value.name,
                          None)
        ELSE CommandNotFound(cmd)

\* l.109-128: the command of the manifest's own package
LocalModuleCommand(cmd, manifest, lockfile_command) ==
    LET found_module == FindModule(manifest, lockfile_command.module)
    IN  IF found_module.tag = "Some"
        THEN CommandFound(found_module.value.source,
                          manifest.base_directory_path,
                          lockfile_command.main_args,
                          found_module.value.name,
                          None)
        ELSE Error(CommandFoundButCorrespondingModuleIsMissing(
                       cmd, lockfile_command.module))

\* DependencyModuleCommand without the prehashed cache key.
DependencyModuleCommand_no_cache_key(lockfile, lockfile_command, dir) ==
    LET m == get_module(lockfile, lockfile_command.package_name,
                        lockfile_command.package_version,
                        lockfile_command.module)
    IN  IF m.tag = "Ok"
        THEN LET path ==
                     get_canonical_source_path_from_lockfile_dir(m.value, dir)
                 manifest_dir ==
                     get_canonical_manifest_path_from_lockfile_dir(m.value, dir)
             IN  CommandFound(path, manifest_dir, lockfile_command.main_args,
                              m.value.name, None)
        ELSE Error(m.error)

\* DependencyModuleCommand without the command's main_args.
DependencyModuleCommand_no_args(lockfile, lockfile_command, dir) ==
    LET m == get_module(lockfile, lockfile_command.package_name,
                        lockfile_command.package_version,
                        lockfile_command.module)
    IN  IF m.tag = "Ok"
        THEN LET path ==
                     get_canonical_source_path_from_lockfile_dir(m.value, dir)
                 manifest_dir ==
                     get_canonical_manifest_path_from_lockfile_dir(m.value, dir)
             IN  CommandFound(path, manifest_dir, None, m.value.name,
                              get_prehashed_cache_key_from_command(
                                  lockfile, lockfile_command))
        ELSE Error(m.error)

\* l.135-158: the command of another package, in a directory with a manifest
DependencyModuleCommand(lockfile, lockfile_command, dir) ==
    LET m == get_module(lockfile, lockfile_command.package_name,
                        lockfile_command.package_version,
                        lockfile_command.module)
    IN  IF m.tag = "Ok"
        THEN LET path ==
                     get_canonical_source_path_from_lockfile_dir(m.value, dir)
                 manifest_dir ==
                     get_canonical_manifest_path_from_lockfile_dir(m.value, dir)
             IN  CommandFound(path, manifest_dir, lockfile_command.main_args,
                              m.value.name,
                              get_prehashed_cache_key_from_command(
                                  lockfile, lockfile_command))
        ELSE Error(m.error)

\* l.171-193: the module of a command found in a lockfile without manifest
LockfileOnlyCommand(cmd, lockfile, lockfile_command, dir) ==
    LET m == get_module(lockfile, lockfile_command.package_name,
                        lockfile_command.package_version,
                        lockfile_command.module)
    IN  IF m.tag = "Ok"
        THEN LET path ==
                     get_canonical_source_path_from_lockfile_dir(m.value, dir)
                 manifest_dir ==
                     get_canonical_manifest_path_from_lockfile_dir(m.value, dir)
             IN  CommandFound(path, manifest_dir, lockfile_command.main_args,
                              m.value.name,
                              get_prehashed_cache_key_from_command(
                                  lockfile, lockfile_command))
        ELSE CommandNotFound(cmd)

find_command_in_lockfile(cmd, lockfile, dir) ==
    LET c == get_command(lockfile, cmd)
    IN  IF c.tag = "Ok"
        THEN Outcome(LockfileOnlyCommand(cmd, lockfile, c.value, dir),
                     <<CallGetCommand(cmd), CallGetModule(c.value)>>)
        ELSE Outcome(CommandNotFound(cmd), <<CallGetCommand(cmd)>>)

\* find_command_in_manifest_and_lockfile resolving a dependency command the
\* way find_command_in_lockfile does.
find_in_manifest_and_lockfile_as_lockfile_only(cmd, manifest, lockfile, dir) ==
    LET c == get_command(lockfile, cmd)
    IN  IF c.tag = "Err"
        THEN Outcome(FromLockfileError(c.error), <<CallGetCommand(cmd)>>)
        ELSE IF c.value.package_name = manifest.package.name
             THEN Outcome(LocalModuleCommand(cmd, manifest, c.value),
                          <<CallGetCommand(cmd)>>)
             ELSE Outcome(LockfileOnlyCommand(cmd, lockfile, c.value, dir),
                          <<CallGetCommand(cmd), CallGetModule(c.value)>>)

\* l.97-162
find_command_in_manifest_and_lockfile(cmd, manifest, lockfile, dir) ==
    LET c == get_command(lockfile, cmd)
    IN  IF c.tag = "Err"
        THEN Outcome(FromLockfileError(c.error), <<CallGetCommand(cmd)>>)
        ELSE IF c.value.package_name = manifest.package.name
             THEN Outcome(LocalModuleCommand(cmd, manifest, c.value),
                          <<CallGetCommand(cmd)>>)
             ELSE Outcome(DependencyModuleCommand(lockfile, c.value, dir),
                          <<CallGetCommand(cmd), CallGetModule(c.value)>>)

\* find_command_in_directory with the manifest-without-lockfile arm
\* returning CommandNotFound.
find_command_in_directory_no_panic(dir, cmd, mres, lres) ==
    CASE mres.tag = "ManifestError" -> Outcome(Error(mres.error), <<>>)
      [] mres.tag # "ManifestError" /\ lres.tag = "LockfileError" ->
            Outcome(Error(lres.error), <<>>)
      [] mres.tag = "NoManifest" /\ lres.tag = "NoLockfile" ->
            Outcome(CommandNotFound(cmd), <<>>)
      [] mres.tag = "NoManifest" /\ lres.tag = "Lockfile" ->
            find_command_in_lockfile(cmd, lres.lockfile, dir)
      [] mres.tag = "Manifest" /\ lres.tag = "NoLockfile" ->
            Outcome(CommandNotFound(cmd), <<>>)
      [] mres.tag = "Manifest" /\ lres.tag = "Lockfile" ->
            find_command_in_manifest_and_lockfile(
                cmd, mres.manifest, lres.lockfile, dir)

\* find_command_in_directory with the lockfile-error arm matching only when
\* there is no manifest: a manifest with a broken lockfile reaches the
\* panic arm.
find_command_in_directory_lockfile_error_late(dir, cmd, mres, lres) ==
    CASE mres.tag = "ManifestError" -> Outcome(Error(mres.error), <<>>)
      [] mres.tag = "NoManifest" /\ lres.tag = "LockfileError" ->
            Outcome(Error(lres.error), <<>>)
      [] mres.tag = "NoManifest" /\ lres.tag = "NoLockfile" ->
            Outcome(CommandNotFound(cmd), <<>>)
      [] mres.tag = "NoManifest" /\ lres.tag = "Lockfile" ->
            find_command_in_lockfile(cmd, lres.lockfile, dir)
      [] mres.tag = "Manifest" /\ lres.tag # "Lockfile" ->
            Outcome(Panic("Manifest exists, but lockfile not found!"), <<>>)
      [] mres.tag = "Manifest" /\ lres.tag = "Lockfile" ->
            find_command_in_manifest_and_lockfile(
                cmd, mres.manifest, lres.lockfile, dir)

\* find_command_in_directory with the neither-present arm taken for a
\* missing manifest only when a lockfile exists: an empty directory reaches
\* the panic arm.
find_command_in_directory_empty_panics(dir, cmd, mres, lres) ==
    CASE mres.tag = "ManifestError" -> Outcome(Error(mres.error), <<>>)
      [] mres.tag # "ManifestError" /\ lres.tag = "LockfileError" ->
            Outcome(Error(lres.error), <<>>)
      [] mres.tag = "NoManifest" /\ lres.tag = "Lockfile" ->
            find_command_in_lockfile(cmd, lres.lockfile, dir)
      [] mres.tag \in {"NoManifest", "Manifest"} /\ lres.tag = "NoLockfile" ->
            Outcome(Panic("Manifest exists, but lockfile not found!"), <<>>)
      [] mres.tag = "Manifest" /\ lres.tag = "Lockfile" ->
            find_command_in_manifest_and_lockfile(
                cmd, mres.manifest, lres.lockfile, dir)

\* l.199-223: the match over the two loaders' outcomes, arms in order.
find_command_in_directory(dir, cmd, mres, lres) ==
    CASE mres.tag = "ManifestError" -> Outcome(Error(mres.error), <<>>)
      [] mres.tag # "ManifestError" /\ lres.tag = "LockfileError" ->
            Outcome(Error(lres.error), <<>>)
      [] mres.tag = "NoManifest" /\ lres.tag = "NoLockfile" ->
            Outcome(CommandNotFound(cmd), <<>>)
      [] mres.tag = "NoManifest" /\ lres.tag = "Lockfile" ->
            find_command_in_lockfile(cmd, lres.lockfile, dir)
      [] mres.tag = "Manifest" /\ lres.tag = "NoLockfile" ->
            Outcome(Panic("Manifest exists, but lockfile not found!"), <<>>)
      [] mres.tag = "Manifest" /\ lres.tag = "Lockfile" ->
            find_command_in_manifest_and_lockfile(
                cmd, mres.manifest, lres.lockfile, dir)

(***************************************************************************)
(* Config::get_current_dir, get_folder, get_globals_directory              *)
(* (config.rs l.104-139, l.178-180), over the environment they read.       *)
(* get_folder is the build with the "dirs" feature.                        *)
(***************************************************************************)
GLOBAL_CONFIG_FOLDER_NAME == ".wasmer"

CurrentDirResults == {Ok(<<"/", "project">>), Err([kind |-> "io"])}

\* WASMER_DIR (unset, empty or a folder), the home directory, create_dir_all.
Environments ==
    [wasmer_dir : {None, Some(<<>>), Some(<<"/", "opt", "wasmer">>)},
     home_dir : {None, Some(<<"/", "home", "user">>)},
     create_dir_all : {Ok(<<>>), Err([kind |-> "io"])}]

get_folder(env) ==
    IF env.wasmer_dir.tag = "Some" /\ env.wasmer_dir.value # <<>>
    THEN Ok(env.wasmer_dir.value)
    ELSE IF env.home_dir.tag = "None"
         THEN Err([kind |-> "CannotFindHomeDirectory"])
         ELSE IF env.create_dir_all.tag = "Err"
              THEN Err([kind |-> "CannotCreateConfigDirectory",
                        error |-> env.create_dir_all.error])
              ELSE Ok(env.home_dir.value \o <<GLOBAL_CONFIG_FOLDER_NAME>>)

get_globals_directory(env) ==
    LET folder == get_folder(env)
    IN  IF folder.tag = "Ok"
        THEN Ok(PathJoin(folder.value, <<"globals">>))
        ELSE folder

(***************************************************************************)
(* get_command_from_anywhere (find_command_result.rs l.241-311).           *)
(***************************************************************************)
Command(found, is_global) ==
    [source |-> found.source, manifest_dir |-> found.manifest_dir,
     args |-> found.args, module_name |-> found.module_name,
     is_global |-> is_global,
     prehashed_cache_key |-> found.prehashed_cache_key]

\* Where a step of get_command_from_anywhere leaves the call.
Continue(next) == [pc |-> next, result |-> Unset]
Return(r) == [pc |-> "done", result |-> r]
Unwind == [pc |-> "panicked", result |-> Unset]

\* local_match with the CommandFound arm continuing to the global scope.
local_match_found_continues(cmd, r) ==
    CASE r.tag = "CommandNotFound" -> Continue("globals")
      [] r.tag = "CommandFound" -> Continue("globals")
      [] r.tag = "Error" ->
            Return(Err(ErrorReadingLocalDirectory(cmd, ToString(r.error))))
      [] r.tag = "Panic" -> Unwind

\* local_match with the Error arm continuing to the global scope.
local_match_error_continues(cmd, r) ==
    CASE r.tag = "CommandNotFound" -> Continue("globals")
      [] r.tag = "CommandFound" -> Return(Ok(Command(r, FALSE)))
      [] r.tag = "Error" -> Continue("globals")
      [] r.tag = "Panic" -> Unwind

\* l.247-271; a panic inside find_command_in_directory unwinds through it.
local_match(cmd, r) ==
    CASE r.tag = "CommandNotFound" -> Continue("globals")
      [] r.tag = "CommandFound" -> Return(Ok(Command(r, FALSE)))
      [] r.tag = "Error" ->
            Return(Err(ErrorReadingLocalDirectory(cmd, ToString(r.error))))
      [] r.tag = "Panic" -> Unwind

\* l.275-277
globals_match(cmd, r) ==
    IF r.tag = "Ok"
    THEN Continue("global")
    ELSE Return(Err(CouldNotOpenGlobalsDirectory(cmd, ToString(r.error))))

\* global_match returning the descriptor with is_global = false.
global_match_not_global(cmd, r) ==
    CASE r.tag = "CommandNotFound" -> Return(Err(ErrorCommandNotFound(cmd)))
      [] r.tag = "CommandFound" -> Return(Ok(Command(r, FALSE)))
      [] r.tag = "Error" ->
            Return(Err(
                CommandNotFoundInLocalDirectoryAndErrorReadingGlobalDirectory(
                    cmd, ToString(r.error))))
      [] r.tag = "Panic" -> Unwind

\* global_match reporting a global Error as a plain CommandNotFound.
global_match_error_as_not_found(cmd, r) ==
    CASE r.tag = "CommandNotFound" -> Return(Err(ErrorCommandNotFound(cmd)))
      [] r.tag = "CommandFound" -> Return(Ok(Command(r, TRUE)))
      [] r.tag = "Error" -> Return(Err(ErrorCommandNotFound(cmd)))
      [] r.tag = "Panic" -> Unwind

\* l.281-310
global_match(cmd, r) ==
    CASE r.tag = "CommandNotFound" -> Return(Err(ErrorCommandNotFound(cmd)))
      [] r.tag = "CommandFound" -> Return(Ok(Command(r, TRUE)))
      [] r.tag = "Error" ->
            Return(Err(
                CommandNotFoundInLocalDirectoryAndErrorReadingGlobalDirectory(
                    cmd, ToString(r.error))))
      [] r.tag = "Panic" -> Unwind

(***************************************************************************)
(* Config and config::set (config.rs l.22-105, l.183-189, l.245-289), in   *)
(* the build with the "telemetry" and "update-notifications" features.     *)
(***************************************************************************)
wax_default_cooldown == 5 * 60

DefaultConfig ==
    [wax_cooldown |-> wax_default_cooldown,
     registry |-> [url |-> "https://registry.wapm.io", token |-> None],
     telemetry |-> [enabled |-> "true"],
     update_notifications |-> [enabled |-> "true"],
     proxy |-> [url |-> None]]

ConfigKeys ==
    {"registry.url", "registry.token", "telemetry.enabled",
     "update-notifications.enabled", "proxy.url", "wax.cooldown",
     "registry.user"}

\* The values given to config::set: two URLs, a number, the empty string.
ConfigValues ==
    {"https://registry.wapm.io", "https://registry.example", "7", ""}

\* What Config::save comes to: the file written, or an error on the way.
SaveResults == {Ok(<<>>), Err([kind |-> "io"])}

KeyNotFound(key) == [kind |-> "KeyNotFound", key |-> key]
CanNotParse(value, key) == [kind |-> "CanNotParse", value |-> value, key |-> key]

\* value.parse::<i32>() on the values above: only "7" is a number.
ParseI32(value) ==
    IF value = "7" THEN Ok(7) ELSE Err([kind |-> "ParseIntError"])

\* set_match with a new registry.url leaving the token in place.
set_match_url_keeps_token(cfg, key, value) ==
    CASE key = "registry.url" ->
            Ok(IF cfg.registry.url # value
               THEN [cfg EXCEPT !.registry.url = value]
               ELSE cfg)
      [] key = "registry.token" ->
            Ok([cfg EXCEPT !.registry.token = Some(value)])
      [] key = "telemetry.enabled" ->
            Ok([cfg EXCEPT !.telemetry.enabled = value])
      [] key = "update-notifications.enabled" ->
            Ok([cfg EXCEPT !.update_notifications.enabled = value])
      [] key = "proxy.url" ->
            Ok([cfg EXCEPT !.proxy.url =
                    IF value = "" THEN None ELSE Some(value)])
      [] key = "wax.cooldown" ->
            LET num == ParseI32(value)
            IN  IF num.tag = "Err"
                THEN Err(CanNotParse(value, key))
                ELSE Ok([cfg EXCEPT !.wax_cooldown = num.value])
      [] OTHER -> Err(KeyNotFound(key))

\* The match of l.254-286: the config as changed, or the error returned.
set_match(cfg, key, value) ==
    CASE key = "registry.url" ->
            Ok(IF cfg.registry.url # value
               THEN [cfg EXCEPT !.registry = [url |-> value, token |-> None]]
               ELSE cfg)
      [] key = "registry.token" ->
            Ok([cfg EXCEPT !.registry.token = Some(value)])
      [] key = "telemetry.enabled" ->
            Ok([cfg EXCEPT !.telemetry.enabled = value])
      [] key = "update-notifications.enabled" ->
            Ok([cfg EXCEPT !.update_notifications.enabled = value])
      [] key = "proxy.url" ->
            Ok([cfg EXCEPT !.proxy.url =
                    IF value = "" THEN None ELSE Some(value)])
      [] key = "wax.cooldown" ->
            LET num == ParseI32(value)
            IN  IF num.tag = "Err"
                THEN Err(CanNotParse(value, key))
                ELSE Ok([cfg EXCEPT !.wax_cooldown = num.value])
      [] OTHER -> Err(KeyNotFound(key))

\* l.253-289: the config after the call, what the call returned, and whether
\* the file was written.
set(cfg, key, value, save_result) ==
    LET matched == set_match(cfg, key, value)
    IN  IF matched.tag = "Err"
        THEN [config |-> cfg, result |-> matched, written |-> FALSE]
        ELSE [config |-> matched.value, result |-> save_result,
              written |-> save_result.tag = "Ok"]

CallFindCommandInDirectory(dir) == <<"find_command_in_directory", dir>>
CallGetGlobalsDirectory == <<"get_globals_directory", <<>>>>
CallGetCurrentDir == <<"get_current_dir", <<>>>>

Init ==
    /\ pc = "start"
    /\ command_name \in CommandNames
    /\ current_directory = Unset
    /\ directory = Unset
    /\ manifest_result = Unset
    /\ lockfile_result = Unset
    /\ command_result = Unset
    /\ local_command_result = Unset
    /\ globals_directory = Unset
    /\ global_command_result = Unset
    /\ result = Unset
    /\ calls = <<>>
    /\ config = DefaultConfig
    /\ config_file = "absent"
    /\ set_result = Unset
    /\ sets = <<>>

\* l.243: Config::get_current_dir().unwrap()
LocateCurrentDir ==
    /\ pc = "start"
    /\ \E r \in CurrentDirResults :
          /\ current_directory' = IF r.tag = "Ok" THEN r.value ELSE Unset
          /\ pc' = IF r.tag = "Ok" THEN "local" ELSE "panicked"
    /\ calls' = Append(calls, CallGetCurrentDir)
    /\ UNCHANGED <<command_name, directory, manifest_result, lockfile_result,
                   command_result, local_command_result, globals_directory,
                   global_command_result, result>>
    /\ UNCHANGED config_vars

\* l.244-271: resolve in the local directory and match on the outcome
ResolveLocal ==
    /\ pc = "local"
    /\ \E mres \in ManifestResults(current_directory), lres \in LockfileResults :
          LET o == find_command_in_directory(
                       current_directory, command_name, mres, lres)
              next == local_match(command_name, o.result)
          IN  /\ directory' = current_directory
              /\ manifest_result' = mres
              /\ lockfile_result' = lres
              /\ command_result' = o.result
              /\ local_command_result' =
                    IF o.result.tag = "Panic" THEN Unset ELSE o.result
              /\ calls' = calls
                     \o <<CallFindCommandInDirectory(current_directory)>>
                     \o o.calls
              /\ pc' = next.pc
              /\ result' = next.result
    /\ UNCHANGED <<command_name, current_directory, globals_directory,
                   global_command_result>>
    /\ UNCHANGED config_vars

\* l.275-277: locate the global directory. The manifest and lockfile loaded
\* by the local find_command_in_directory were dropped when it returned; only
\* local_command_result is left of it.
LocateGlobals ==
    /\ pc = "globals"
    /\ \E env \in Environments :
          LET r == get_globals_directory(env)
              next == globals_match(command_name, r)
          IN  /\ globals_directory' = r
              /\ pc' = next.pc
              /\ result' = next.result
    /\ calls' = Append(calls, CallGetGlobalsDirectory)
    /\ directory' = Unset
    /\ manifest_result' = Unset
    /\ lockfile_result' = Unset
    /\ command_result' = Unset
    /\ UNCHANGED <<command_name, current_directory, local_command_result,
                   global_command_result>>
    /\ UNCHANGED config_vars

\* l.278-310: resolve in the global directory and match on the outcome
ResolveGlobal ==
    /\ pc = "global"
    /\ \E mres \in ManifestResults(globals_directory.value),
          lres \in LockfileResults :
          LET o == find_command_in_directory(
                       globals_directory.value, command_name, mres, lres)
              next == global_match(command_name, o.result)
          IN  /\ directory' = globals_directory.value
              /\ manifest_result' = mres
              /\ lockfile_result' = lres
              /\ command_result' = o.result
              /\ global_command_result' =
                    IF o.result.tag = "Panic" THEN Unset ELSE o.result
              /\ calls' = calls
                     \o <<CallFindCommandInDirectory(globals_directory.value)>>
                     \o o.calls
              /\ pc' = next.pc
              /\ result' = next.result
    /\ UNCHANGED <<command_name, current_directory, local_command_result,
                   globals_directory>>
    /\ UNCHANGED config_vars

Next == LocateCurrentDir \/ ResolveLocal \/ LocateGlobals \/ ResolveGlobal

Spec == Init /\ [][Next]_vars

\* config::set(&mut config, key, value), any key with any value
ConfigSet ==
    /\ Len(sets) < MaxSets
    /\ \E key \in ConfigKeys, value \in ConfigValues, save_result \in SaveResults :
          LET after == set(config, key, value, save_result)
          IN  /\ config' = after.config
              /\ set_result' = after.result
              /\ config_file' =
                    IF after.written THEN "current"
                    ELSE IF config_file = "current" /\ after.config # config
                         THEN "stale"
                         ELSE config_file
              /\ sets' = Append(sets, [key |-> key, value |-> value,
                                       registry |-> config.registry])
    /\ UNCHANGED locate_vars

InitConfig == Init /\ command_name = "run"

NextConfig == ConfigSet

SpecConfig == InitConfig /\ [][NextConfig]_vars

(***************************************************************************)
(* Properties.                                                             *)
(***************************************************************************)
NumCalls(op) == Cardinality({i \in 1..Len(calls) : calls[i][1] = op})

\* The global scope was neither located nor resolved.
GlobalUntouched ==
    /\ NumCalls("get_globals_directory") = 0
    /\ NumCalls("find_command_in_directory") = 1
    /\ globals_directory = Unset
    /\ global_command_result = Unset

SameDescriptor(command, found) ==
    /\ command.source = found.source
    /\ command.manifest_dir = found.manifest_dir
    /\ command.args = found.args
    /\ command.module_name = found.module_name
    /\ command.prehashed_cache_key = found.prehashed_cache_key

\* C1: once the local find_command_in_directory has yielded CommandFound,
\* get_command_from_anywhere has returned exactly that descriptor with
\* is_global = false, and the global directory is neither located nor
\* resolved, then or later.
C1_LocalPrecedence ==
    local_command_result.tag = "CommandFound" =>
        /\ pc = "done"
        /\ result.tag = "Ok"
        /\ SameDescriptor(result.value, local_command_result)
        /\ result.value.is_global = FALSE
        /\ GlobalUntouched

C1_Witness ==
    /\ pc = "done"
    /\ local_command_result.tag = "CommandFound"
    /\ result.tag = "Ok"

\* C2: once the local find_command_in_directory has yielded Error(e),
\* get_command_from_anywhere has returned
\* ErrorReadingLocalDirectory(command_name, e.to_string()), and the global
\* directory is neither located nor resolved, then or later.
C2_LocalErrorNotMasked ==
    local_command_result.tag = "Error" =>
        /\ pc = "done"
        /\ result = Err([kind |-> "ErrorReadingLocalDirectory",
                         command |-> command_name,
                         message |-> ToString(local_command_result.error)])
        /\ GlobalUntouched

C2_Witness ==
    /\ pc = "done"
    /\ local_command_result.tag = "Error"
    /\ result.tag = "Err"

\* C3: the returned descriptor has is_global = true exactly when the local
\* resolve yielded CommandNotFound, the global directory was located and the
\* global resolve yielded CommandFound; its other fields are then those of
\* the global resolve.
C3_GlobalFallback ==
    /\ (result.tag = "Ok" /\ result.value.is_global = TRUE)
          <=> /\ local_command_result.tag = "CommandNotFound"
              /\ globals_directory.tag = "Ok"
              /\ global_command_result.tag = "CommandFound"
    /\ global_command_result.tag = "CommandFound" =>
          /\ result.tag = "Ok"
          /\ SameDescriptor(result.value, global_command_result)

C3_Witness ==
    /\ pc = "done"
    /\ global_command_result.tag = "CommandFound"
    /\ result.tag = "Ok"
    /\ result.value.is_global = TRUE

\* C4: after a local CommandNotFound the error names the cause and carries
\* the command name: a failed locator gives CouldNotOpenGlobalsDirectory and
\* the global scope is not resolved, a global Error(e) gives
\* CommandNotFoundInLocalDirectoryAndErrorReadingGlobalDirectory(name, e), a
\* global CommandNotFound gives CommandNotFound(name); CommandNotFound is
\* returned only when both scopes yielded CommandNotFound.
C4_GlobalFailureCause ==
    /\ (local_command_result.tag = "CommandNotFound"
            /\ globals_directory.tag = "Err") =>
          /\ pc = "done"
          /\ result = Err([kind |-> "CouldNotOpenGlobalsDirectory",
                           command |-> command_name,
                           message |-> ToString(globals_directory.error)])
          /\ NumCalls("find_command_in_directory") = 1
          /\ global_command_result = Unset
    /\ global_command_result.tag = "Error" =>
          /\ pc = "done"
          /\ result = Err(
                [kind |->
                   "CommandNotFoundInLocalDirectoryAndErrorReadingGlobalDirectory",
                 command |-> command_name,
                 message |-> ToString(global_command_result.error)])
    /\ global_command_result.tag = "CommandNotFound" =>
          /\ pc = "done"
          /\ result = Err([kind |-> "CommandNotFound",
                           command |-> command_name])
    /\ (result.tag = "Err" /\ result.error.kind = "CommandNotFound") =>
          /\ local_command_result.tag = "CommandNotFound"
          /\ global_command_result.tag = "CommandNotFound"
    /\ result.tag = "Err" => result.error.command = command_name

C4_Witness ==
    /\ pc = "done"
    /\ local_command_result.tag = "CommandNotFound"
    /\ global_command_result.tag = "Error"
    /\ result.tag = "Err"

(***************************************************************************)
(* Properties of find_command_in_directory, stated on the state in which   *)
(* a call of it has just returned or unwound: directory, manifest_result   *)
(* and lockfile_result are what it was given and loaded, command_result    *)
(* is what came of it.                                                     *)
(***************************************************************************)
BothPresent ==
    manifest_result.tag = "Manifest" /\ lockfile_result.tag = "Lockfile"

LockfileOnly ==
    manifest_result.tag = "NoManifest" /\ lockfile_result.tag = "Lockfile"

\* The lockfile has an entry for the requested command.
HasEntry ==
    /\ lockfile_result.tag = "Lockfile"
    /\ command_name \in DOMAIN lockfile_result.lockfile.commands

Entry == lockfile_result.lockfile.commands[command_name]

\* The entry's (package_name, package_version, module) is in the module table.
ModuleResolves ==
    <<Entry.package_name, Entry.package_version, Entry.module>>
        \in DOMAIN lockfile_result.lockfile.modules

IsLocalCommand ==
    /\ BothPresent
    /\ HasEntry
    /\ Entry.package_name = manifest_result.manifest.package.name

IsDependencyCommand ==
    /\ BothPresent
    /\ HasEntry
    /\ Entry.package_name # manifest_result.manifest.package.name

\* The manifest lists a module of the entry's module name.
InManifestModules ==
    /\ manifest_result.manifest.module.tag = "Some"
    /\ \E i \in 1..Len(manifest_result.manifest.module.value) :
          manifest_result.manifest.module.value[i].name = Entry.module

\* The last call logged is find_command_in_directory itself: it made no lookup.
NoLookup == calls[Len(calls)][1] = "find_command_in_directory"

C6_LocalInconsistencyIsError ==
    (IsLocalCommand /\ ~InManifestModules) =>
        command_result =
            [tag |-> "Error",
             error |-> [kind |-> "CommandFoundButCorrespondingModuleIsMissing",
                        command |-> command_name,
                        module |-> Entry.module]]

C6_Witness ==
    /\ IsLocalCommand
    /\ ~InManifestModules
    /\ command_result.tag = "Error"

\* C7: a parsed manifest with no lockfile makes find_command_in_directory
\* panic: get_command_from_anywhere unwinds without a return value and
\* without going on to the next scope.
C7_ManifestWithoutLockfilePanics ==
    (manifest_result.tag = "Manifest" /\ lockfile_result.tag = "NoLockfile") =>
        /\ command_result.tag = "Panic"
        /\ pc = "panicked"
        /\ result = Unset
        /\ NoLookup
        /\ local_command_result = Unset => GlobalUntouched

C7_Witness ==
    /\ manifest_result.tag = "Manifest"
    /\ lockfile_result.tag = "NoLockfile"
    /\ local_command_result.tag = "CommandNotFound"
    /\ pc = "panicked"

\* C8: when the manifest loader or the lockfile loader reports an error,
\* find_command_in_directory returns Error with that loader's error (the
\* manifest's when both fail) and looks nothing up.
C8_LoaderErrorsPropagate ==
    /\ manifest_result.tag = "ManifestError" =>
          /\ command_result = [tag |-> "Error", error |-> manifest_result.error]
          /\ NoLookup
    /\ (manifest_result.tag \in {"NoManifest", "Manifest"}
            /\ lockfile_result.tag = "LockfileError") =>
          /\ command_result = [tag |-> "Error", error |-> lockfile_result.error]
          /\ NoLookup

C8_Witness ==
    /\ manifest_result.tag = "Manifest"
    /\ lockfile_result.tag = "LockfileError"
    /\ command_result.tag = "Error"

\* C9 as stated: in every branch, an entry for the requested command whose
\* module reference is not in the lockfile's module table yields Error.
C9_DanglingReferenceIsError ==
    (HasEntry /\ manifest_result.tag \in {"NoManifest", "Manifest"}
        /\ ~ModuleResolves) => command_result.tag = "Error"

\* C9 amended: a dangling module reference yields Error (the failed module
\* lookup) for a dependency command in a directory with manifest and
\* lockfile; from a lockfile alone it yields CommandNotFound(command_name);
\* a local command is resolved in the manifest's module list whatever the
\* lockfile's module table holds.
C9_DanglingReferenceByBranch ==
    (HasEntry /\ ~ModuleResolves) =>
        /\ IsDependencyCommand =>
              /\ command_result.tag = "Error"
              /\ command_result.error.kind = "ModuleNotFound"
        /\ LockfileOnly =>
              command_result = [tag |-> "CommandNotFound",
                                command |-> command_name]
        /\ IsLocalCommand =>
              IF InManifestModules
              THEN command_result.tag = "CommandFound"
              ELSE command_result.tag = "Error"

C9_Witness ==
    /\ IsDependencyCommand
    /\ ~ModuleResolves
    /\ command_result.tag = "Error"

\* C10 as stated: a dependency command resolved with manifest and lockfile
\* gets the outcome find_command_in_lockfile gives for the same lockfile,
\* directory and command.
C10_SameAsLockfileOnly ==
    IsDependencyCommand =>
        command_result =
            find_command_in_lockfile(
                command_name, lockfile_result.lockfile, directory).result

\* C10 amended: it gets that outcome (CommandFound with the same source,
\* manifest_dir, args, module_name and prehashed_cache_key) when the entry's
\* module reference resolves; when it dangles, the outcome is Error where
\* find_command_in_lockfile gives CommandNotFound.
C10_SameAsLockfileOnlyWhenResolved ==
    IsDependencyCommand =>
        LET alone ==
                find_command_in_lockfile(
                    command_name, lockfile_result.lockfile, directory).result
        IN  IF ModuleResolves
            THEN /\ command_result.tag = "CommandFound"
                 /\ command_result = alone
            ELSE /\ command_result.tag = "Error"
                 /\ alone = [tag |-> "CommandNotFound",
                             command |-> command_name]

C10_Witness ==
    /\ IsDependencyCommand
    /\ ModuleResolves
    /\ command_result.tag = "CommandFound"
    /\ command_result.args.tag = "Some"

\* The manifest module a local command resolves to: the first of that name.
EntryManifestModule ==
    LET modules == manifest_result.manifest.module.value
    IN  modules[CHOOSE i \in 1..Len(modules) :
                    /\ modules[i].name = Entry.module
                    /\ \A j \in 1..(i - 1) : modules[j].name # Entry.module]

\* C11: for a local command found, the descriptor's source is the module's
\* source path anchored at the manifest's base_directory_path (an absolute
\* path), manifest_dir is the base_directory_path, module_name is the
\* manifest module's name and args are the lockfile command's main_args.
C11_LocalDescriptorPaths ==
    (IsLocalCommand /\ InManifestModules) =>
        /\ command_result.tag = "CommandFound"
        /\ command_result.source =
              PathJoin(manifest_result.manifest.base_directory_path,
                       EntryManifestModule.source)
        /\ IsAbsolute(command_result.source)
        /\ command_result.manifest_dir =
              manifest_result.manifest.base_directory_path
        /\ command_result.module_name = EntryManifestModule.name
        /\ command_result.args = Entry.main_args

\* C12: in a directory with neither manifest nor lockfile,
\* find_command_in_directory returns CommandNotFound(command_name) without
\* a lookup; get_command_from_anywhere then goes on to locate the global
\* directory (local scope) or returns CommandNotFound(command_name) (global
\* scope).
C12_EmptyDirectoryIsNotFound ==
    (manifest_result.tag = "NoManifest" /\ lockfile_result.tag = "NoLockfile") =>
        /\ command_result = [tag |-> "CommandNotFound",
                             command |-> command_name]
        /\ NoLookup
        /\ local_command_result = command_result
        /\ IF global_command_result = Unset
           THEN /\ pc = "globals"
                /\ result = Unset
                /\ GlobalUntouched
           ELSE /\ pc = "done"
                /\ global_command_result = command_result
                /\ result = Err([kind |-> "CommandNotFound",
                                 command |-> command_name])

C12_Witness ==
    /\ manifest_result.tag = "NoManifest"
    /\ lockfile_result.tag = "NoLockfile"
    /\ global_command_result.tag = "CommandNotFound"
    /\ pc = "done"

(***************************************************************************)
(* Properties of config::set, stated on the log of the calls made: each    *)
(* entry holds the key, the value and the registry the call found.         *)
(***************************************************************************)
ChangedUrl(i) ==
    sets[i].key = "registry.url" /\ sets[i].value # sets[i].registry.url

\* The latest call that changed the registry URL (0: none did).
LastUrlChange ==
    LET changes == {i \in 1..Len(sets) : ChangedUrl(i)}
    IN  IF changes = {}
        THEN 0
        ELSE CHOOSE i \in changes : \A j \in changes : j <= i

\* C13: the registry token is Some(t) only if a set("registry.token", t) was
\* made after the latest set("registry.url", v) that changed the URL; a
\* set of registry.url to another value leaves that URL and no token, a set
\* of it to its current value leaves the registry as it was, a set of
\* registry.token leaves the URL, and a set of any other key leaves both.
C13_TokenNeverOutlivesUrl ==
    /\ config.registry.token.tag = "Some" =>
          \E i \in (LastUrlChange + 1)..Len(sets) :
              /\ sets[i].key = "registry.token"
              /\ sets[i].value = config.registry.token.value
    /\ Len(sets) > 0 =>
          LET last == sets[Len(sets)]
          IN  CASE last.key = "registry.url" /\ last.value # last.registry.url ->
                      config.registry = [url |-> last.value,
                                         token |-> [tag |-> "None"]]
                [] last.key = "registry.url" /\ last.value = last.registry.url ->
                      config.registry = last.registry
                [] last.key = "registry.token" ->
                      config.registry.url = last.registry.url
                [] OTHER -> config.registry = last.registry

C13_Witness ==
    /\ Len(sets) = 3
    /\ ChangedUrl(1)
    /\ sets[2].key = "registry.token"
    /\ sets[3].key = "registry.url"
    /\ ~ChangedUrl(3)
    /\ config.registry.token = [tag |-> "Some", value |-> sets[2].value]

====
